---- MODULE Spec2Model ----
(***************************************************************************)
(* Model of src/app.py: the App Store review collector.                    *)
(*                                                                         *)
(* scrape_appstore_reviews_all_countries is modelled as a state machine    *)
(* whose steps are the iterations of its loops: the region loop (for idx,  *)
(* country), the page loop (while scanned < per_country_limit ...) and the *)
(* entry loop (for rv in reviews).  The network is the environment: every  *)
(* call of request_with_retry returns a response chosen by the environment *)
(* or None.  The entries of a page are drawn when the entry loop reaches   *)
(* them; the loop reads them strictly in order and never looks ahead.      *)
(*                                                                         *)
(* Variables whose name starts with g_ are history variables: they record  *)
(* what was fed to the walker and are never read by the modelled code.     *)
(*                                                                         *)
(* The functions the collector calls have specifications of their own:     *)
(* SpecFetch runs one call of request_with_retry attempt by attempt,       *)
(* SpecScore applies ru_score and is_russian_text to texts of letters of   *)
(* several scripts, SpecKey feeds entries without identifier to the        *)
(* duplicate test, and SpecTopics applies the topic tagging to short       *)
(* texts.  SpecWalk is the run under weak fairness on a feed that never    *)
(* runs out of pages.  Texts are sequences of characters; a character that *)
(* is not ASCII is written by its name between angle brackets.             *)
(***************************************************************************)
EXTENDS Integers, Sequences, FiniteSets, TLC

(***************************************************************************)
(* Bounds of the model.                                                    *)
(***************************************************************************)
\* largest per_country_limit tried
MaxLimit == 2
\* largest number of reviews parsed from one page
MaxPageLen == 2
\* the feed of a region has at most this many non-empty pages
MaxPages == 2
\* longest run of letters of one script in the texts given to ru_score
MaxRun == 12
\* number of entries without identifier given to the duplicate test
MaxFed == 2
\* page numbers told apart when the feed never runs out of pages
PageCap == 3

(***************************************************************************)
(* Program constants.                                                      *)
(***************************************************************************)
\* days: int = 7
days == 7
\* now_utc = datetime.now(timezone.utc), in days since an arbitrary origin
now_utc == 10
\* ru_threshold: float = 0.55, in percent
ru_threshold == 55
\* if len(letters) < 12
MinLetters == 12

cutoff == now_utc - days

\* STORE_FRONTS, shortened to two of its codes, in the order of the list
\* (the list holds no code twice)
STORE_FRONTS == <<"ru", "us">>

TOPIC_ORDER == <<"onboarding", "streak", "ads", "subscription", "bugs", "motivation">>

(***************************************************************************)
(* Optional values: None is the empty sequence, a value v is <<v>>.        *)
(***************************************************************************)
None == << >>
Some(v) == <<v>>

(***************************************************************************)
(* Characters.  A string of the program is a sequence of characters; a     *)
(* character is written as itself when it is ASCII and as its Unicode      *)
(* letter name in angle brackets otherwise: "<er>" is CYRILLIC SMALL       *)
(* LETTER ER, "<ER>" the capital, "<io>" is the letter io (e with          *)
(* diaeresis), "<alpha>" GREEK SMALL LETTER ALPHA.  Only the letters the   *)
(* texts and keywords of the model use are listed.                         *)
(***************************************************************************)
LatinLower ==
    <<"a", "b", "c", "d", "e", "f", "g", "h", "i", "j", "k", "l", "m",
      "n", "o", "p", "q", "r", "s", "t", "u", "v", "w", "x", "y", "z">>

LatinUpper ==
    <<"A", "B", "C", "D", "E", "F", "G", "H", "I", "J", "K", "L", "M",
      "N", "O", "P", "Q", "R", "S", "T", "U", "V", "W", "X", "Y", "Z">>

\* letters of the range of the Cyrillic small letters a .. ya
CyrLower ==
    <<"<a>", "<be>", "<ve>", "<ghe>", "<de>", "<ie>", "<ze>", "<i>", "<ka>",
      "<el>", "<em>", "<o>", "<pe>", "<er>", "<es>", "<kha>", "<tse>">>

\* the capitals of CyrLower, in the same order
CyrUpper ==
    <<"<A>", "<BE>", "<VE>", "<GHE>", "<DE>", "<IE>", "<ZE>", "<I>", "<KA>",
      "<EL>", "<EM>", "<O>", "<PE>", "<ER>", "<ES>", "<KHA>", "<TSE>">>

\* letters of other scripts, which have no capital in the model
OtherLetters == {"<alpha>"}

Digits == {"0", "1", "2", "3", "4", "5", "6", "7", "8", "9"}

\* what \s matches
Whitespace == {" ", "\n"}

Range(seq) == {seq[i] : i \in 1..Len(seq)}

\* _CYR_RE = [А-Яа-яЁё]
_CYR_RE == Range(CyrLower) \cup Range(CyrUpper) \cup {"<io>", "<IO>"}

\* _LETTER_RE = [A-Za-zА-Яа-яЁё]
_LETTER_RE == Range(LatinLower) \cup Range(LatinUpper) \cup _CYR_RE

\* what \w matches under re.UNICODE: letters of any script, digits, underscore
WordChars == _LETTER_RE \cup OtherLetters \cup Digits \cup {"_"}

\* str.lower() on one character
lower(c) ==
    IF c = "<IO>" THEN "<io>"
    ELSE IF \E i \in 1..Len(LatinUpper) : LatinUpper[i] = c
    THEN LatinLower[CHOOSE i \in 1..Len(LatinUpper) : LatinUpper[i] = c]
    ELSE IF \E i \in 1..Len(CyrUpper) : CyrUpper[i] = c
    THEN CyrLower[CHOOSE i \in 1..Len(CyrUpper) : CyrUpper[i] = c]
    ELSE c

\* .lower().replace("ё", "е") on a string
LowerFold(t) ==
    [i \in 1..Len(t) |-> IF lower(t[i]) = "<io>" THEN "<ie>" ELSE lower(t[i])]

\* re.sub(r"\s+", " ", t): every run of whitespace becomes one space
RECURSIVE CollapseSpaces(_)
CollapseSpaces(t) ==
    IF t = << >> THEN << >>
    ELSE IF Head(t) \in Whitespace
    THEN IF Len(t) >= 2 /\ t[2] \in Whitespace
         THEN CollapseSpaces(Tail(t))
         ELSE <<" ">> \o CollapseSpaces(Tail(t))
    ELSE <<Head(t)>> \o CollapseSpaces(Tail(t))

\* str.strip()
RECURSIVE strip(_)
strip(t) ==
    IF t = << >> THEN << >>
    ELSE IF Head(t) \in Whitespace THEN strip(Tail(t))
    ELSE IF t[Len(t)] \in Whitespace THEN strip(SubSeq(t, 1, Len(t) - 1))
    ELSE t

(***************************************************************************)
(* Inputs.                                                                 *)
(***************************************************************************)
\* An App Store URL: cc is the two-letter segment after apps.apple.com/
\* ("" when there is none), id the digits after "/id" ("" when there are none).
AppUrls == [cc : {"", "ru", "zz"}, id : {"", "570060128"}]

\* review_date_raw: a string that is not an ISO date, or an ISO date with its
\* local time (in days) and its zone: "Z", an explicit offset, or none.
RawDates ==
    { [fmt |-> "garbage", local |-> 0, off |-> 0],
      [fmt |-> "Z", local |-> cutoff - 1, off |-> 0],
      [fmt |-> "Z", local |-> cutoff, off |-> 0],
      [fmt |-> "Z", local |-> cutoff + 1, off |-> 0],
      [fmt |-> "offset", local |-> cutoff + 1, off |-> 2] }

\* title + review_text: a sequence of characters (see Characters above).
\* "реклама везде": twelve Cyrillic letters
text_ru ==
    <<"<er>", "<ie>", "<ka>", "<el>", "<a>", "<em>", "<a>", " ",
      "<ve>", "<ie>", "<ze>", "<de>", "<ie>">>

\* "ads lag a lot ok": twelve Latin letters
text_en ==
    <<"a", "d", "s", " ", "l", "a", "g", " ", "a", " ", "l", "o", "t", " ", "o", "k">>

\* "баг": three Cyrillic letters
text_short == <<"<be>", "<a>", "<ghe>">>

Texts == {text_ru, text_en, text_short}

ReviewIds == {"r1", "r2"}

\* One entry of feed.entry, by the labels parse_rss_reviews reads.
RawEntries ==
    [review_id : ReviewIds \cup {""}, author_name : {<<"u", "1">>},
     review_date_raw : RawDates, text : Texts]

\* if not (author and content and title and rating and updated and rid): continue
IsReview(e) == e.review_id # "" /\ e.author_name # ""

\* The entries parse_rss_reviews returns.
Entries == {e \in RawEntries : IsReview(e)}

\* The JSON body of a lookup: resultCount, and results[0].trackName
\* (None when the key is missing, results = << >> when the list is empty).
LookupBodies ==
    { [resultCount |-> 0, results |-> << >>],
      [resultCount |-> 1, results |-> << >>],
      [resultCount |-> 1, results |-> <<[trackName |-> None]>>],
      [resultCount |-> 1, results |-> <<[trackName |-> Some("App")]>>] }

\* What request_with_retry followed by r.json() yields for a lookup:
\* no response, a body that is not JSON, or a JSON body.
LookupResponses ==
    { [kind |-> "none", body |-> [resultCount |-> 0, results |-> << >>]],
      [kind |-> "notjson", body |-> [resultCount |-> 0, results |-> << >>]] }
    \cup { [kind |-> "json", body |-> b] : b \in LookupBodies }

\* What request_with_retry followed by r.json() and parse_rss_reviews yields
\* for a feed page: no response, not JSON, or n parsed reviews.
FeedResponses ==
    { [kind |-> "none", n |-> 0], [kind |-> "notjson", n |-> 0] }
    \cup { [kind |-> "json", n |-> n] : n \in 0..MaxPageLen }

\* The responses that end a region's walk.
EndingFeedResponses == {r \in FeedResponses : r.kind # "json" \/ r.n = 0}

(***************************************************************************)
(* Pure functions of src/app.py.                                           *)
(***************************************************************************)
\* extract_app_id that never raises: a URL without digits yields an empty id
extract_app_id_Lenient(app_url) == Some(app_url.id)

\* extract_app_id: the digits after "/id", or None when it raises ValueError
extract_app_id(app_url) ==
    IF app_url.id = "" THEN None ELSE Some(app_url.id)

extract_default_country_from_url(app_url) ==
    IF app_url.cc = "" THEN "us" ELSE app_url.cc

\* itunes_lookup without the resultCount test
itunes_lookup_AnyCount(resp) ==
    IF resp.kind = "json" THEN Some(resp.body) ELSE None

\* itunes_lookup after the request: None, or the data
itunes_lookup(resp) ==
    IF resp.kind = "none" THEN None
    ELSE IF resp.kind = "notjson" THEN None
    ELSE IF resp.body.resultCount < 1 THEN None
    ELSE Some(resp.body)

\* parse_iso_date: None, or the instant in UTC
parse_iso_date(date_str) ==
    IF date_str.fmt = "garbage" THEN None
    ELSE IF date_str.fmt = "offset" THEN Some(date_str.local - date_str.off)
    ELSE Some(date_str.local)

\* ru_score as a pair <<numerator, denominator>> of the ratio it returns
ru_score(text) ==
    LET t == strip(text)
        letters == SelectSeq(t, LAMBDA c : c \in _LETTER_RE)
        cyr == SelectSeq(t, LAMBDA c : c \in _CYR_RE)
    IN  IF t = << >> THEN <<0, 1>>
        ELSE IF Len(letters) < MinLetters THEN <<0, 1>>
        ELSE <<Len(cyr), Len(letters)>>

\* ru_score(combined) >= threshold, the threshold in percent
is_russian_text(text, threshold) ==
    LET s == ru_score(strip(text))
    IN  s[1] * 100 >= threshold * s[2]

\* the text normalized without the letter fold
normalized_text_for_hash_NoFold(text) == strip(CollapseSpaces(text))

normalized_text_for_hash(text) == strip(CollapseSpaces(LowerFold(text)))

\* sha256 of the base string f"{author_name}||{review_date_iso}||{normalized}",
\* taken as injective on its three parts
make_fallback_dedupe_key(author_name, review_date_iso, text) ==
    <<author_name, review_date_iso, normalized_text_for_hash(text)>>

\* the region list without the "if c != default_country" filter
CountriesOf_NoFilter(default_country) == <<default_country>> \o STORE_FRONTS

\* countries = [default_country] + [c for c in STORE_FRONTS if c != default_country]
CountriesOf(default_country) ==
    <<default_country>> \o SelectSeq(STORE_FRONTS, LAMBDA c : c # default_country)

(***************************************************************************)
(* State.                                                                  *)
(***************************************************************************)
VARIABLES
    app_url,            \* argument app_url
    per_country_limit,  \* argument per_country_limit
    pc,                 \* where the run is: start, name, region, page, entry, done, error
    app_id,             \* None until extract_app_id returned
    default_country,
    app_name,           \* None, or the name get_app_name returned
    name_i,             \* get_app_name: position in [preferred_country, "us"]
    countries,
    idx,                \* position in countries, from 1
    pages, scanned, kept_ru, stop_due_to_old, page,
    reviews,            \* len(reviews) of the page being walked
    rv_i,               \* position of the entry loop in reviews, from 1
    all_rows, seen_review_ids, seen_fallback,
    df,                 \* None until the table is built
    g_event,            \* what the last step met (history)
    g_seen,             \* identifiers of the in-window entries examined so far (history)
    g_expected,         \* the rows the examined entries call for (history)
    g_probed,           \* the regions probed so far, in order (history)
    g_fetch,            \* the last request issued (history)
    g_feed_gets,        \* feed requests issued for the current region (history)
    g_old_met,          \* an entry older than the cutoff was examined in the current region (history)
    progress_callback,  \* argument progress_callback: TRUE when one is supplied
    g_progress,         \* the calls of progress_callback so far, in order (history)
    g_probe,            \* what the last probe's response was (history)
    rq_pc,              \* request_with_retry: idle, get, sleep, returned
    attempt,            \* request_with_retry: the loop variable
    status,             \* request_with_retry: what the last session.get produced
    sleep_s,            \* request_with_retry: the last time.sleep, in units of 1/400 s
    rq_ret,             \* request_with_retry: what it returned
    g_gets,             \* what each session.get so far produced, in order (history)
    fn_pc,              \* a function under test: idle, call, returned
    fn_arg,             \* its arguments
    fn_ret              \* what it returned

main_vars == <<app_url, per_country_limit, progress_callback, pc, app_id,
               default_country, app_name, name_i, countries, idx, pages, scanned,
               kept_ru, stop_due_to_old, page, reviews, rv_i, all_rows,
               seen_review_ids, seen_fallback, df, g_event, g_seen, g_expected,
               g_probed, g_fetch, g_feed_gets, g_old_met, g_progress, g_probe>>

fetch_vars == <<rq_pc, attempt, status, sleep_s, rq_ret, g_gets>>

fn_vars == <<fn_pc, fn_arg, fn_ret>>

vars == <<main_vars, fetch_vars, fn_vars>>

walk_vars == <<pages, scanned, kept_ru, stop_due_to_old, page, reviews, rv_i>>
run_vars == <<app_url, per_country_limit, progress_callback, app_id, default_country,
              app_name, name_i, countries>>
probe_vars == <<g_probed, g_progress, g_probe>>
out_vars == <<all_rows, seen_review_ids, seen_fallback, g_seen, g_expected>>

NoFetch == [kind |-> "none", country |-> "", page |-> 0]

\* no attempt yet
NoOutcome == [kind |-> "none", code |-> 0]

\* request_with_retry is not under test
FetchIdle ==
    /\ rq_pc = "idle" /\ attempt = 0 /\ status = NoOutcome /\ sleep_s = 0
    /\ rq_ret = None /\ g_gets = << >>

\* no function is under test
FnIdle == fn_pc = "idle" /\ fn_arg = << >> /\ fn_ret = << >>

\* scrape_appstore_reviews_all_countries is not running; the values are those
\* of a run on a "ru" URL that has read its arguments
MainIdle ==
    /\ app_url = [cc |-> "ru", id |-> "570060128"]
    /\ per_country_limit = 1
    /\ progress_callback = FALSE
    /\ pc = "idle"
    /\ app_id = Some("570060128")
    /\ default_country = "ru"
    /\ app_name = None
    /\ name_i = 1
    /\ countries = << >>
    /\ idx = 1
    /\ pages = 0 /\ scanned = 0 /\ kept_ru = 0 /\ stop_due_to_old = FALSE /\ page = 1
    /\ reviews = 0 /\ rv_i = 1
    /\ all_rows = << >> /\ seen_review_ids = {} /\ seen_fallback = {}
    /\ df = None
    /\ g_event = "none" /\ g_seen = {} /\ g_expected = << >> /\ g_probed = << >>
    /\ g_fetch = NoFetch /\ g_feed_gets = 0 /\ g_old_met = FALSE
    /\ g_progress = << >> /\ g_probe = "none"

Init ==
    /\ app_url \in AppUrls
    /\ per_country_limit \in 1..MaxLimit
    /\ progress_callback = TRUE
    /\ pc = "start"
    /\ app_id = None
    /\ default_country = ""
    /\ app_name = None
    /\ name_i = 1
    /\ countries = << >>
    /\ idx = 1
    /\ pages = 0 /\ scanned = 0 /\ kept_ru = 0 /\ stop_due_to_old = FALSE /\ page = 1
    /\ reviews = 0 /\ rv_i = 1
    /\ all_rows = << >> /\ seen_review_ids = {} /\ seen_fallback = {}
    /\ df = None
    /\ g_event = "none" /\ g_seen = {} /\ g_expected = << >> /\ g_probed = << >>
    /\ g_fetch = NoFetch /\ g_feed_gets = 0 /\ g_old_met = FALSE
    /\ g_progress = << >> /\ g_probe = "none"
    /\ FetchIdle
    /\ FnIdle

(***************************************************************************)
(* The decisions of the walker.                                            *)
(***************************************************************************)
\* while scanned < per_country_limit and not stop_due_to_old
WhileCond(n, limit, stop) == n < limit /\ ~stop

\* the cap test with > in place of >=
CapReached_Strict(n, limit) == n > limit

\* if scanned >= per_country_limit: break
CapReached(n, limit) == n >= limit

\* the age test with <= in place of <
IsOld_OrEqual(dt) == dt <= cutoff

\* if dt < cutoff
IsOld(dt) == dt < cutoff

\* a membership test that never finds the identifier
AlreadySeen_Never(review_id, seen) == FALSE

\* if review_id in seen_review_ids
AlreadySeen(review_id, seen) == review_id \in seen

\* the identifier is not recorded
RecordSeen_Forget(seen, review_id) == seen

\* seen_review_ids.add(review_id)
RecordSeen(seen, review_id) == seen \cup {review_id}

\* an unparseable timestamp handled like an old one: stop the region
OnUnparseable_Stop(w) == [w EXCEPT !.stop_due_to_old = TRUE, !.ctl = "break"]

\* if not dt: continue
OnUnparseable(w) == [w EXCEPT !.ctl = "continue"]

\* the dict appended to all_rows
Row(rv, country, review_date_iso) ==
    [app_id |-> app_id[1], app_name |-> app_name, country |-> country,
     review_id |-> IF rv.review_id # "" THEN Some(rv.review_id) ELSE None,
     author_name |-> rv.author_name, text |-> rv.text,
     review_date |-> review_date_iso, language |-> "ru", source_url |-> app_url]

\* the language filter moved before scanned += 1: only kept entries are counted
CountAndFilter_KeptOnly(rv, country, review_date_iso, w) ==
    LET w1 == [w EXCEPT !.seen_review_ids =
                            IF rv.review_id # "" THEN @ \cup {rv.review_id} ELSE @,
                        !.ctl = "continue"]
    IN  IF ~(ru_score(rv.text)[1] * 100 >= ru_threshold * ru_score(rv.text)[2])
        THEN w1
        ELSE [w1 EXCEPT !.scanned = @ + 1, !.kept_ru = @ + 1,
                        !.all_rows = Append(@,
                            [app_id |-> app_id[1], app_name |-> app_name,
                             country |-> country, review_id |-> Some(rv.review_id),
                             author_name |-> rv.author_name, text |-> rv.text,
                             review_date |-> review_date_iso, language |-> "ru",
                             source_url |-> app_url])]

\* from scanned += 1 to all_rows.append: the entry is in the window and no duplicate
CountAndFilter(rv, country, review_date_iso, w) ==
    LET w1 == [w EXCEPT !.scanned = @ + 1,
                        !.seen_review_ids =
                            IF rv.review_id # "" THEN RecordSeen(@, rv.review_id) ELSE @,
                        !.ctl = "continue"]
    IN  IF ~is_russian_text(rv.text, ru_threshold)
        THEN w1
        ELSE [w1 EXCEPT !.kept_ru = @ + 1,
                        !.all_rows = Append(@, Row(rv, country, review_date_iso))]

\* the body of "for rv in reviews" after the cap check; w holds the variables
\* it reads and writes, ctl how the iteration ends (continue or break)
ProcessReview(rv, country, w) ==
    LET dt == parse_iso_date(rv.review_date_raw)
    IN  IF dt = None THEN OnUnparseable(w)
        ELSE IF IsOld(dt[1])
        THEN [w EXCEPT !.stop_due_to_old = TRUE, !.ctl = "break"]
        ELSE LET review_date_iso == dt[1]
                 fb == make_fallback_dedupe_key(rv.author_name, review_date_iso, rv.text)
             IN  IF rv.review_id # ""
                 THEN IF AlreadySeen(rv.review_id, w.seen_review_ids)
                      THEN [w EXCEPT !.ctl = "continue"]
                      ELSE CountAndFilter(rv, country, review_date_iso, w)
                 ELSE IF fb \in w.seen_fallback
                      THEN [w EXCEPT !.ctl = "continue"]
                      ELSE CountAndFilter(rv, country, review_date_iso,
                               [w EXCEPT !.seen_fallback = @ \cup {fb}])

(***************************************************************************)
(* Topic tagging.                                                          *)
(***************************************************************************)
\* _normalize_for_matching: lower, fold, [^\w\s] to space, collapse, strip
_normalize_for_matching(text) ==
    LET t == LowerFold(text)
        u == [i \in 1..Len(t) |->
                 IF t[i] \in WordChars \cup Whitespace THEN t[i] ELSE " "]
    IN  strip(CollapseSpaces(u))

\* kw, with some of the words of each topic: "sign up", "login", "вход";
\* "streak", "serie"; "ads", "ad", "реклама";
\* "abo", "free trial", "подпис"; "bug", "lag", "баг"; "fun", "цели"
kw ==
    [onboarding |-> << <<"s", "i", "g", "n", " ", "u", "p">>,
                       <<"l", "o", "g", "i", "n">>,
                       <<"<ve>", "<kha>", "<o>", "<de>">> >>,
     streak |-> << <<"s", "t", "r", "e", "a", "k">>,
                   <<"s", "e", "r", "i", "e">> >>,
     ads |-> << <<"a", "d", "s">>, <<"a", "d">>,
                <<"<er>", "<ie>", "<ka>", "<el>", "<a>", "<em>", "<a>">> >>,
     subscription |-> << <<"a", "b", "o">>,
                         <<"f", "r", "e", "e", " ", "t", "r", "i", "a", "l">>,
                         <<"<pe>", "<o>", "<de>", "<pe>", "<i>", "<es>">> >>,
     bugs |-> << <<"b", "u", "g">>, <<"l", "a", "g">>,
                 <<"<be>", "<a>", "<ghe>">> >>,
     motivation |-> << <<"f", "u", "n">>,
                       <<"<tse>", "<ie>", "<el>", "<i>">> >> ]

\* re.fullmatch(r"[a-z0-9]+", w_norm)
is_latin_single(w_norm) ==
    /\ w_norm # << >>
    /\ \A i \in 1..Len(w_norm) : w_norm[i] \in Range(LatinLower) \cup Digits

\* every keyword compiled as a plain substring
CompilePattern_Substring(topic, w_norm) == [w |-> w_norm, bounded |-> FALSE]

\* the pattern of one keyword: \b...\b for a single Latin token, else the
\* escaped keyword
CompilePattern(topic, w_norm) ==
    IF topic = "ads" /\ w_norm \in {<<"a", "d">>, <<"a", "d", "s">>}
    THEN [w |-> w_norm, bounded |-> TRUE]
    ELSE IF is_latin_single(w_norm)
    THEN [w |-> w_norm, bounded |-> TRUE]
    ELSE [w |-> w_norm, bounded |-> FALSE]

\* _compile_keyword_patterns: per topic, the patterns of its keywords whose
\* normalized form is not empty
_compile_keyword_patterns ==
    [topic \in DOMAIN kw |->
        LET words == [i \in 1..Len(kw[topic]) |-> _normalize_for_matching(kw[topic][i])]
            kept == SelectSeq(words, LAMBDA w : w # << >>)
        IN  [i \in 1..Len(kept) |-> CompilePattern(topic, kept[i])]]

TOPIC_PATTERNS == _compile_keyword_patterns

\* \b at position k of t: between t[k-1] and t[k], one a word character and
\* the other not (outside the string counts as not)
WordBoundary(t, k) ==
    (k - 1 \in 1..Len(t) /\ t[k - 1] \in WordChars) # (k \in 1..Len(t) /\ t[k] \in WordChars)

\* p.search(norm); re.IGNORECASE changes nothing on the lowercased norm
search(p, norm) ==
    \E i \in 1..(Len(norm) - Len(p.w) + 1) :
        /\ SubSeq(norm, i, i + Len(p.w) - 1) = p.w
        /\ p.bounded => (WordBoundary(norm, i) /\ WordBoundary(norm, i + Len(p.w)))

\* match_topics that stops at the first topic it flags
match_topics_FirstOnly(text) ==
    LET norm == _normalize_for_matching(text)
        hit(t) == \E i \in 1..Len(TOPIC_PATTERNS[t]) : search(TOPIC_PATTERNS[t][i], norm)
    IN  [t \in Range(TOPIC_ORDER) |->
            IF hit(t) /\ \A j \in 1..Len(TOPIC_ORDER) :
                            (j < CHOOSE k \in 1..Len(TOPIC_ORDER) : TOPIC_ORDER[k] = t)
                                => ~hit(TOPIC_ORDER[j])
            THEN 1 ELSE 0]

\* match_topics: hits[topic] = 1 iff one of the topic's patterns is found
match_topics(text) ==
    LET norm == _normalize_for_matching(text)
    IN  [t \in Range(TOPIC_ORDER) |->
            IF \E i \in 1..Len(TOPIC_PATTERNS[t]) : search(TOPIC_PATTERNS[t][i], norm)
            THEN 1 ELSE 0]

\* ",".join(names)
RECURSIVE join(_)
join(names) ==
    IF names = << >> THEN ""
    ELSE IF Len(names) = 1 THEN names[1]
    ELSE names[1] \o "," \o join(Tail(names))

\* the cells tag_topics appends for one row: tags_col and the topic_cols
TopicCells(hits) ==
    [topic_tags |-> join(SelectSeq(TOPIC_ORDER, LAMBDA t : hits[t] = 1)),
     topic_onboarding |-> hits["onboarding"],
     topic_streak |-> hits["streak"],
     topic_ads |-> hits["ads"],
     topic_subscription |-> hits["subscription"],
     topic_bugs |-> hits["bugs"],
     topic_motivation |-> hits["motivation"]]

\* match_topics of every text of the model, computed once
TextHits == [t \in Texts |-> match_topics(t)]

\* one row of tag_topics: hits = match_topics(title, review_text)
TagRow(row) == row @@ TopicCells(TextHits[row.text])

(***************************************************************************)
(* The table.  A DataFrame is its column labels, in order, and its rows;   *)
(* a row holds the cells the model tracks (text stands for title and       *)
(* review_text).                                                           *)
(***************************************************************************)
\* the keys of the dict appended to all_rows, in the order written
RowKeys ==
    <<"app_id", "app_name", "country", "review_id", "author_name", "rating", "title",
      "review_text", "review_date", "version", "language", "source_url">>

base_cols ==
    <<"app_id", "app_name", "country", "review_id", "author_name", "rating",
      "title", "review_text", "review_date", "version", "language", "source_url">>

\* the labels tag_topics and the zero-row branch assign, in the order assigned
TopicCols ==
    <<"topic_tags">> \o [i \in 1..Len(TOPIC_ORDER) |-> "topic_" \o TOPIC_ORDER[i]]

\* pd.DataFrame(all_rows): the columns are the keys of the rows, none without rows
DataFrame(rows) ==
    [columns |-> IF rows = << >> THEN << >> ELSE RowKeys, rows |-> rows]

\* df[c] = ... for each c of cols: a label not yet there is appended
AssignColumns(d, cols) ==
    [d EXCEPT !.columns =
        d.columns \o SelectSeq(cols, LAMBDA c : c \notin Range(d.columns))]

\* the table left without the schema guarantee
EnsureBaseCols_Skip(d) == d

\* for c in base_cols: if c not in df.columns: df[c] = None
EnsureBaseCols(d) == AssignColumns(d, base_cols)

\* tag_topics(df): the topic columns, filled row by row
tag_topics(d) ==
    [AssignColumns(d, TopicCols) EXCEPT
        !.rows = [i \in 1..Len(d.rows) |-> TagRow(d.rows[i])]]

\* df["topic_tags"] = ""; df[f"topic_{t}"] = 0 on a table without rows
ZeroRowDefaults(d) == AssignColumns(d, TopicCols)

final_cols ==
    <<"app_id", "app_name", "country", "review_id", "author_name", "rating", "title",
      "review_text", "review_date", "version", "language", "topic_tags",
      "topic_onboarding", "topic_streak", "topic_ads", "topic_subscription",
      "topic_bugs", "topic_motivation", "source_url">>

(***************************************************************************)
(* What the entry fed to the walker is, by its own fields (history).       *)
(***************************************************************************)
EntryKind(rv) ==
    LET t == parse_iso_date(rv.review_date_raw)
    IN  IF t = None THEN "unparseable"
        ELSE IF t[1] < cutoff THEN "old"
        ELSE IF rv.review_id \in g_seen THEN "dup"
        ELSE IF ~is_russian_text(rv.text, ru_threshold) THEN "nonru"
        ELSE "kept"

ExpectedRow(rv, country) ==
    [app_id |-> app_id[1], app_name |-> app_name, country |-> country,
     review_id |-> Some(rv.review_id), author_name |-> rv.author_name,
     text |-> rv.text, review_date |-> parse_iso_date(rv.review_date_raw)[1],
     language |-> "ru", source_url |-> app_url]

(***************************************************************************)
(* What the probe's response was, by its own fields (history).             *)
(***************************************************************************)
ProbeKind(resp) ==
    IF resp.kind = "none" THEN "fetch_failure"
    ELSE IF resp.kind = "notjson" THEN "unparseable"
    ELSE IF resp.body.resultCount = 0 THEN "zero_results"
    ELSE "listing"

(***************************************************************************)
(* Steps of scrape_appstore_reviews_all_countries.                         *)
(***************************************************************************)
\* app_id = extract_app_id(app_url); default_country = ...
Start ==
    /\ pc = "start"
    /\ app_id' = extract_app_id(app_url)
    /\ IF extract_app_id(app_url) = None
       THEN /\ pc' = "error"
            /\ UNCHANGED default_country
       ELSE /\ pc' = "name"
            /\ default_country' = extract_default_country_from_url(app_url)
    /\ g_event' = "none"
    /\ UNCHANGED <<app_url, per_country_limit, progress_callback, app_name, name_i,
                   countries, idx, walk_vars, out_vars, df, probe_vars, g_fetch,
                   g_feed_gets, g_old_met, fetch_vars, fn_vars>>

\* one iteration of "for c in [preferred_country, 'us']" of get_app_name; when it
\* returns, the run sets up all_rows, the seen sets and countries
NameLookup ==
    /\ pc = "name"
    /\ \E resp \in LookupResponses :
         LET c == <<default_country, "us">>[name_i]
             data == itunes_lookup(resp)
             found == data # None /\ data[1].results # << >>
         IN  /\ g_fetch' = [kind |-> "name", country |-> c, page |-> 0]
             /\ IF found
                THEN /\ app_name' = data[1].results[1].trackName
                     /\ pc' = "region"
                     /\ UNCHANGED name_i
                ELSE IF name_i = 2
                THEN /\ app_name' = None
                     /\ pc' = "region"
                     /\ UNCHANGED name_i
                ELSE /\ name_i' = 2
                     /\ UNCHANGED <<app_name, pc>>
    /\ countries' = IF pc' = "region" THEN CountriesOf(default_country) ELSE countries
    /\ g_event' = "none"
    /\ UNCHANGED <<app_url, per_country_limit, progress_callback, app_id,
                   default_country, idx, walk_vars, out_vars, df, probe_vars,
                   g_feed_gets, g_old_met, fetch_vars, fn_vars>>

\* the fraction computed from the 0-based position without the + 1
ProgressArgs_ZeroBased(i, total_countries, country) ==
    [num |-> i - 1, den |-> total_countries, country |-> country]

\* the arguments of progress_callback((idx + 1) / total_countries, country);
\* i is the position from 1, so the numerator idx + 1 of the code is i
ProgressArgs(i, total_countries, country) ==
    [num |-> i, den |-> total_countries, country |-> country]

\* the head of one iteration of "for idx, country in enumerate(countries)":
\* if progress_callback: progress_callback(...)
ReportProgress ==
    /\ pc = "region"
    /\ idx <= Len(countries)
    /\ g_progress' = IF progress_callback
                     THEN Append(g_progress,
                                 ProgressArgs(idx, Len(countries), countries[idx]))
                     ELSE g_progress
    /\ pc' = "probe"
    /\ g_event' = "none"
    /\ UNCHANGED <<run_vars, idx, walk_vars, out_vars, df, g_probed, g_probe,
                   g_fetch, g_feed_gets, g_old_met, fetch_vars, fn_vars>>

\* a failed probe ends the region loop
OnProbeFail_Abort(i, n) == n + 1

\* if not lookup: continue
OnProbeFail(i, n) == i + 1

\* lookup = itunes_lookup(session, app_id, country), up to the while loop
RegionProbe ==
    /\ pc = "probe"
    /\ \E resp \in LookupResponses :
         LET country == countries[idx]
         IN  /\ g_fetch' = [kind |-> "probe", country |-> country, page |-> 0]
             /\ g_probed' = Append(g_probed, country)
             /\ g_probe' = ProbeKind(resp)
             /\ g_feed_gets' = 0
             /\ g_old_met' = FALSE
             /\ IF itunes_lookup(resp) = None
                THEN /\ idx' = OnProbeFail(idx, Len(countries))
                     /\ pc' = "region"
                     /\ g_event' = "probe_fail"
                     /\ UNCHANGED walk_vars
                ELSE /\ pages' = 0 /\ scanned' = 0 /\ kept_ru' = 0
                     /\ stop_due_to_old' = FALSE /\ page' = 1
                     /\ pc' = "page"
                     /\ g_event' = "none"
                     /\ UNCHANGED <<idx, reviews, rv_i>>
    /\ UNCHANGED <<run_vars, out_vars, df, g_progress, fetch_vars, fn_vars>>

\* the while condition is false: the region is done
WhileExit ==
    /\ pc = "page"
    /\ ~WhileCond(scanned, per_country_limit, stop_due_to_old)
    /\ idx' = idx + 1
    /\ pc' = "region"
    /\ g_event' = "none"
    /\ UNCHANGED <<run_vars, walk_vars, out_vars, df, probe_vars, g_fetch, g_feed_gets,
                   g_old_met, fetch_vars, fn_vars>>

\* one iteration of the while loop up to "for rv in reviews", the feed
\* answering with one of responses; n_pages is the value of pages += 1 and
\* n_gets the number of feed requests issued for the region
PageFetchFrom(responses, n_pages, n_gets) ==
    /\ pc = "page"
    /\ WhileCond(scanned, per_country_limit, stop_due_to_old)
    /\ pages' = n_pages
    /\ g_fetch' = [kind |-> "feed", country |-> countries[idx], page |-> page]
    /\ g_feed_gets' = n_gets
    /\ \E resp \in responses :
         IF resp.kind = "json" /\ resp.n > 0
         THEN /\ reviews' = resp.n
              /\ rv_i' = 1
              /\ pc' = "entry"
              /\ g_event' = "none"
              /\ UNCHANGED idx
         ELSE /\ idx' = idx + 1
              /\ pc' = "region"
              /\ g_event' = IF resp.kind = "none" THEN "fetch_fail"
                            ELSE IF resp.kind = "notjson" THEN "not_json"
                            ELSE "empty_page"
              /\ UNCHANGED <<reviews, rv_i>>
    /\ UNCHANGED <<run_vars, scanned, kept_ru, stop_due_to_old, page, out_vars, df,
                   probe_vars, g_old_met, fetch_vars, fn_vars>>

\* the while loop on a feed that has at most MaxPages non-empty pages
PageFetch ==
    PageFetchFrom(IF page <= MaxPages THEN FeedResponses ELSE EndingFeedResponses,
                  pages + 1, g_feed_gets + 1)

\* "for rv in reviews" is exhausted: page += 1, n_page the value it gives page
ForExhaustedTo(n_page) ==
    /\ pc = "entry"
    /\ rv_i > reviews
    /\ page' = n_page
    /\ pc' = "page"
    /\ g_event' = "none"
    /\ UNCHANGED <<run_vars, idx, pages, scanned, kept_ru, stop_due_to_old, reviews, rv_i,
                   out_vars, df, probe_vars, g_fetch, g_feed_gets, g_old_met,
                   fetch_vars, fn_vars>>

ForExhausted == ForExhaustedTo(page + 1)

\* if scanned >= per_country_limit: break, then page += 1
ForCapBreakTo(n_page) ==
    /\ pc = "entry"
    /\ rv_i <= reviews
    /\ CapReached(scanned, per_country_limit)
    /\ page' = n_page
    /\ pc' = "page"
    /\ g_event' = "cap_break"
    /\ UNCHANGED <<run_vars, idx, pages, scanned, kept_ru, stop_due_to_old, reviews, rv_i,
                   out_vars, df, probe_vars, g_fetch, g_feed_gets, g_old_met,
                   fetch_vars, fn_vars>>

ForCapBreak == ForCapBreakTo(page + 1)

\* one iteration of "for rv in reviews" on the next entry of the page; a
\* break is followed by page += 1, n_page the value it gives page
ForBodyTo(n_page) ==
    /\ pc = "entry"
    /\ rv_i <= reviews
    /\ ~CapReached(scanned, per_country_limit)
    /\ \E rv \in Entries :
         LET country == countries[idx]
             w == [scanned |-> scanned, kept_ru |-> kept_ru,
                   stop_due_to_old |-> stop_due_to_old,
                   seen_review_ids |-> seen_review_ids,
                   seen_fallback |-> seen_fallback, all_rows |-> all_rows,
                   ctl |-> "continue"]
             w2 == ProcessReview(rv, country, w)
             kind == EntryKind(rv)
         IN  /\ scanned' = w2.scanned
             /\ kept_ru' = w2.kept_ru
             /\ stop_due_to_old' = w2.stop_due_to_old
             /\ seen_review_ids' = w2.seen_review_ids
             /\ seen_fallback' = w2.seen_fallback
             /\ all_rows' = w2.all_rows
             /\ IF w2.ctl = "break"
                THEN /\ page' = n_page
                     /\ pc' = "page"
                     /\ UNCHANGED rv_i
                ELSE /\ rv_i' = rv_i + 1
                     /\ UNCHANGED <<page, pc>>
             /\ g_event' = kind
             /\ g_seen' = IF kind \in {"dup", "nonru", "kept"}
                          THEN g_seen \cup {rv.review_id} ELSE g_seen
             /\ g_expected' = IF kind = "kept"
                              THEN Append(g_expected, ExpectedRow(rv, country))
                              ELSE g_expected
             /\ g_old_met' = (g_old_met \/ kind = "old")
    /\ UNCHANGED <<run_vars, idx, pages, reviews, df, probe_vars, g_fetch, g_feed_gets,
                   fetch_vars, fn_vars>>

ForBody == ForBodyTo(page + 1)

\* after the region loop: df = pd.DataFrame(all_rows), the schema guarantee,
\* tagging or the zero-row defaults, df = df[final_cols] (KeyError when a
\* label of final_cols is no column), return df
BuildTable ==
    /\ pc = "region"
    /\ idx > Len(countries)
    /\ LET d0 == DataFrame(all_rows)
           d1 == EnsureBaseCols(d0)
           d2 == IF Len(d1.rows) > 0 THEN tag_topics(d1) ELSE ZeroRowDefaults(d1)
       IN  IF Range(final_cols) \subseteq Range(d2.columns)
           THEN /\ df' = Some([d2 EXCEPT !.columns = final_cols])
                /\ pc' = "done"
           ELSE /\ df' = None
                /\ pc' = "error"
    /\ g_event' = "none"
    /\ UNCHANGED <<run_vars, idx, walk_vars, out_vars, probe_vars, g_fetch, g_feed_gets,
                   g_old_met, fetch_vars, fn_vars>>

Next ==
    \/ Start
    \/ NameLookup
    \/ ReportProgress
    \/ RegionProbe
    \/ WhileExit
    \/ PageFetch
    \/ ForExhausted
    \/ ForCapBreak
    \/ ForBody
    \/ BuildTable

Spec == Init /\ [][Next]_vars

(***************************************************************************)
(* The run on a feed that may answer every page request with entries,      *)
(* whatever the page number.  The walker reads page only to build the URL  *)
(* of the request and pages only to log it, so a number above PageCap is   *)
(* recorded as PageCap; the count of feed requests (history) likewise.     *)
(* The function runs to completion in one thread: a step that can be taken *)
(* is taken.                                                               *)
(***************************************************************************)
Capped(n) == IF n > PageCap THEN PageCap ELSE n

WalkPageFetch == PageFetchFrom(FeedResponses, Capped(pages + 1), Capped(g_feed_gets + 1))

WalkForExhausted == ForExhaustedTo(Capped(page + 1))

WalkForCapBreak == ForCapBreakTo(Capped(page + 1))

WalkForBody == ForBodyTo(Capped(page + 1))

NextWalk ==
    \/ Start
    \/ NameLookup
    \/ ReportProgress
    \/ RegionProbe
    \/ WhileExit
    \/ WalkPageFetch
    \/ WalkForExhausted
    \/ WalkForCapBreak
    \/ WalkForBody
    \/ BuildTable

\* the run on a URL of the "ru" store front, with or without an id
InitWalk == Init /\ app_url.cc = "ru"

SpecWalk == InitWalk /\ [][NextWalk]_vars /\ WF_vars(NextWalk)

(***************************************************************************)
(* request_with_retry, on its own: one call, the server and the network    *)
(* choosing what each session.get produces.  Time is in units of 1/400 s.  *)
(***************************************************************************)
\* max_retries: int = 6
max_retries == 6
\* base_sleep: float = 0.75, in units of 1/400 s
base_sleep == 300
\* jitter: float = 0.25, in units of 1/400 s
jitter == 100

\* values of random.random(), in hundredths: 0 <= random.random() < 1
RandomDraws == {0, 50, 99}

\* what one session.get produces: a response with its status_code, or a
\* requests.RequestException
Outcomes ==
    { [kind |-> "status", code |-> c] : c \in {200, 404, 429, 500, 502, 503, 504} }
    \cup { [kind |-> "exception", code |-> 0] }

\* every status but 200 is retried
ShouldRetry_AnyError(code) == code # 200

\* if status in (429, 500, 502, 503, 504)
ShouldRetry(code) == code \in {429, 500, 502, 503, 504}

\* a loop that runs once more than range(max_retries)
InRange_Inclusive(a, n) == a <= n

\* for attempt in range(max_retries)
InRange(a, n) == a < n

\* sleep_s = base_sleep * (2 ** attempt) + random.random() * jitter
Backoff(a, rnd) == base_sleep * (2 ^ a) + (rnd * jitter) \div 100

InitFetch ==
    /\ MainIdle
    /\ FnIdle
    /\ rq_pc = "get" /\ attempt = 0 /\ status = NoOutcome /\ sleep_s = 0
    /\ rq_ret = None /\ g_gets = << >>

\* one pass of the loop body: r = session.get(...), then return r, or
\* time.sleep(sleep_s) entered, or return None
FetchGet ==
    /\ rq_pc = "get"
    /\ InRange(attempt, max_retries)
    /\ \E o \in Outcomes :
         /\ status' = o
         /\ g_gets' = Append(g_gets, o)
         /\ IF o.kind = "status" /\ o.code = 200
            THEN /\ rq_ret' = Some(o)
                 /\ rq_pc' = "returned"
                 /\ UNCHANGED sleep_s
            ELSE IF o.kind = "exception" \/ ShouldRetry(o.code)
            THEN /\ \E rnd \in RandomDraws : sleep_s' = Backoff(attempt, rnd)
                 /\ rq_pc' = "sleep"
                 /\ UNCHANGED rq_ret
            ELSE /\ rq_ret' = None
                 /\ rq_pc' = "returned"
                 /\ UNCHANGED sleep_s
    /\ UNCHANGED <<attempt, main_vars, fn_vars>>

\* time.sleep returns and the loop goes to its next attempt
FetchWake ==
    /\ rq_pc = "sleep"
    /\ attempt' = attempt + 1
    /\ sleep_s' = 0
    /\ rq_pc' = "get"
    /\ UNCHANGED <<status, rq_ret, g_gets, main_vars, fn_vars>>

\* range(max_retries) is exhausted: return None
FetchExhausted ==
    /\ rq_pc = "get"
    /\ ~InRange(attempt, max_retries)
    /\ rq_ret' = None
    /\ rq_pc' = "returned"
    /\ UNCHANGED <<attempt, status, sleep_s, g_gets, main_vars, fn_vars>>

NextFetch ==
    \/ FetchGet
    \/ FetchWake
    \/ FetchExhausted

SpecFetch == InitFetch /\ [][NextFetch]_vars

(***************************************************************************)
(* ru_score and is_russian_text, on their own: one call on a text made of  *)
(* a run of Cyrillic letters, a run of Latin letters, a run of letters of  *)
(* another script and, possibly, a digit and a space.                      *)
(***************************************************************************)
Rep(c, n) == [i \in 1..n |-> c]

ScoreTexts ==
    { Rep("<a>", c) \o (IF c > 0 THEN <<"<IO>">> ELSE << >>) \o Rep("a", l)
         \o Rep("<alpha>", o) \o (IF d = 1 THEN <<" ", "1">> ELSE << >>) :
      c \in 0..(MaxRun - 1), l \in 0..MaxRun, o \in 0..MaxRun, d \in 0..1 }

\* the values of threshold tried, in percent
Thresholds == {55, 100}

InitScore ==
    /\ MainIdle
    /\ FetchIdle
    /\ fn_pc = "call"
    /\ fn_arg \in [text : ScoreTexts, threshold : Thresholds]
    /\ fn_ret = << >>

\* ru_score(text) and is_russian_text(title, body, threshold) on the same text
ScoreCall ==
    /\ fn_pc = "call"
    /\ fn_ret' = [score |-> ru_score(fn_arg.text),
                  accept |-> is_russian_text(fn_arg.text, fn_arg.threshold)]
    /\ fn_pc' = "returned"
    /\ UNCHANGED <<fn_arg, main_vars, fetch_vars>>

NextScore == ScoreCall

SpecScore == InitScore /\ [][NextScore]_vars

(***************************************************************************)
(* The duplicate test of the entry loop on entries without identifier,     *)
(* on its own: MaxFed such entries are given to the body of the loop one   *)
(* after the other.  parse_rss_reviews yields no such entry; the test is   *)
(* exercised here as the code has it.                                      *)
(***************************************************************************)
\* "Iv" and "iv"
KeyAuthors == { <<"I", "v">>, <<"i", "v">> }

\* one instant written with "Z" and with an offset, and another instant
KeyDates ==
    { [fmt |-> "Z", local |-> cutoff + 1, off |-> 0],
      [fmt |-> "offset", local |-> cutoff + 3, off |-> 2],
      [fmt |-> "Z", local |-> cutoff, off |-> 0] }

\* "Ёa  b", "еA b\n" and "еab"
KeyTexts ==
    { <<"<IO>", "a", " ", " ", "b">>,
      <<"<ie>", "A", " ", "b", "\n">>,
      <<"<ie>", "a", "b">> }

NoIdEntries ==
    [review_id : {""}, author_name : KeyAuthors, review_date_raw : KeyDates,
     text : KeyTexts]

\* the variables the body of the entry loop reads and writes, at the start
\* of a region
FreshWalk ==
    [scanned |-> 0, kept_ru |-> 0, stop_due_to_old |-> FALSE, seen_review_ids |-> {},
     seen_fallback |-> {}, all_rows |-> << >>, ctl |-> "continue"]

InitKey ==
    /\ MainIdle
    /\ FetchIdle
    /\ fn_pc = "call"
    /\ fn_arg = FreshWalk
    /\ fn_ret = << >>

\* the body of the entry loop on one more entry without identifier; fn_ret
\* logs the entry, its key, and whether it got past the duplicate test
KeyFeed ==
    /\ fn_pc = "call"
    /\ Len(fn_ret) < MaxFed
    /\ \E rv \in NoIdEntries :
         LET w2 == ProcessReview(rv, default_country, fn_arg)
         IN  /\ fn_arg' = w2
             /\ fn_ret' = Append(fn_ret,
                   [rv |-> rv,
                    key |-> make_fallback_dedupe_key(rv.author_name,
                               parse_iso_date(rv.review_date_raw)[1], rv.text),
                    passed |-> w2.scanned = fn_arg.scanned + 1])
    /\ UNCHANGED <<fn_pc, main_vars, fetch_vars>>

NextKey == KeyFeed

SpecKey == InitKey /\ [][NextKey]_vars

(***************************************************************************)
(* match_topics and the topic cells of a row, on their own: one call on a  *)
(* text made of two words and what stands between them.                    *)
(***************************************************************************)
\* "ad", "ads", "AD", "advice", "lag", "flags", "abo", "design", "upgrade",
\* "ok", "баги", "подписка"
TopicWords ==
    { <<"a", "d">>, <<"a", "d", "s">>, <<"A", "D">>,
      <<"a", "d", "v", "i", "c", "e">>, <<"l", "a", "g">>,
      <<"f", "l", "a", "g", "s">>, <<"a", "b", "o">>,
      <<"d", "e", "s", "i", "g", "n">>, <<"u", "p", "g", "r", "a", "d", "e">>,
      <<"o", "k">>, <<"<be>", "<a>", "<ghe>", "<i>">>,
      <<"<pe>", "<o>", "<de>", "<pe>", "<i>", "<es>", "<ka>", "<a>">> }

\* nothing, a space, a comma, "! ", a newline, an underscore
TopicSeps == { << >>, <<" ">>, <<",">>, <<"!", " ">>, <<"\n">>, <<"_">> }

InitTopics ==
    /\ MainIdle
    /\ FetchIdle
    /\ fn_pc = "call"
    /\ fn_arg \in [w1 : TopicWords, sep : TopicSeps, w2 : TopicWords]
    /\ fn_ret = << >>

\* hits = match_topics(title, review_text) and the cells appended for the row
TopicsCall ==
    /\ fn_pc = "call"
    /\ fn_ret' = TopicCells(match_topics(fn_arg.w1 \o fn_arg.sep \o fn_arg.w2))
    /\ fn_pc' = "returned"
    /\ UNCHANGED <<fn_arg, main_vars, fetch_vars>>

NextTopics == TopicsCall

SpecTopics == InitTopics /\ [][NextTopics]_vars

(***************************************************************************)
(* Helpers of the properties.                                              *)
(***************************************************************************)
IsPrefix(s, t) == Len(s) <= Len(t) /\ \A i \in 1..Len(s) : s[i] = t[i]

RowsOf(rows, country) == {i \in 1..Len(rows) : rows[i].country = country}

PositionIn(seq, c) == CHOOSE i \in 1..Len(seq) : seq[i] = c

EntryEvents == {"unparseable", "old", "dup", "nonru", "kept"}

FailureEvents == {"probe_fail", "fetch_fail", "not_json", "empty_page"}

InWalk == pc \in {"page", "entry"}

C2_NoTwoRowsShareAnIdentifier ==
    [][ /\ \A i, j \in 1..Len(all_rows') :
             i # j => all_rows'[i].review_id # all_rows'[j].review_id
        /\ g_event' = "dup" => all_rows' = all_rows
        /\ pc' = "done" =>
             \A i, j \in 1..Len(df'[1].rows) :
                 i # j => df'[1].rows[i].review_id # df'[1].rows[j].review_id ]_vars

\* an identifier was fed a second time, in a later region, and has one record
C2_Witness ==
    /\ g_event = "dup"
    /\ Len(all_rows) = 1
    /\ all_rows[1].country # countries[idx]
    /\ g_seen = {all_rows[1].review_id[1]}

(***************************************************************************)
(* C3: an in-window entry rejected as a duplicate consumes one unit of its *)
(* region's scan quota.                                                    *)
(***************************************************************************)
C3_DuplicateConsumesQuota ==
    [][ g_event' = "dup" => scanned' = scanned + 1 ]_vars

(***************************************************************************)
(* C4: an in-window, non-duplicate entry rejected by the language filter   *)
(* consumes one unit of the scan quota and adds no record, so a region's   *)
(* records never outnumber the quota it consumed.                          *)
(***************************************************************************)
C4_CapBoundsScannedNotKept ==
    [][ /\ g_event' = "nonru" => (scanned' = scanned + 1 /\ all_rows' = all_rows)
        /\ InWalk' =>
             Cardinality(RowsOf(all_rows', countries'[idx'])) <= scanned' ]_vars

\* the cap is used up while the region has fewer records than the cap
C4_Witness ==
    /\ g_event = "nonru"
    /\ scanned = per_country_limit
    /\ Cardinality(RowsOf(all_rows, countries[idx])) < scanned

(***************************************************************************)
(* C5: once an entry strictly older than the cutoff was examined in a      *)
(* region, no record is added and no feed page is requested until the next *)
(* region is probed; the stop is set by such an entry only, so an entry    *)
(* whose timestamp equals the cutoff does not set it.                      *)
(***************************************************************************)
C5_EarlyStopOnOldEntry ==
    [][ /\ g_old_met =>
             /\ all_rows' = all_rows
             /\ g_event' \notin EntryEvents
             /\ (g_feed_gets' = g_feed_gets \/ g_probed' # g_probed)
        /\ g_old_met' => stop_due_to_old'
        /\ (InWalk' /\ stop_due_to_old') => g_old_met' ]_vars

\* an old entry stopped a region in which an entry dated exactly at the cutoff
\* had been kept, and entries of the page are left
C5_Witness ==
    /\ g_old_met
    /\ pc = "page"
    /\ rv_i < reviews
    /\ \E i \in 1..Len(all_rows) :
         all_rows[i].country = countries[idx] /\ all_rows[i].review_date = cutoff

(***************************************************************************)
(* C6: the quota consumed never exceeds the cap, a region has at most cap  *)
(* records, and once the quota equals the cap no entry is examined and no  *)
(* page is requested for that region.                                      *)
(***************************************************************************)
C6_QuotaNeverExceedsCap ==
    [][ /\ scanned' <= per_country_limit
        /\ \A c \in Range(countries') :
             Cardinality(RowsOf(all_rows', c)) <= per_country_limit
        /\ (InWalk /\ scanned >= per_country_limit) =>
             /\ g_event' \notin EntryEvents
             /\ all_rows' = all_rows
             /\ g_feed_gets' = g_feed_gets ]_vars

\* the cap was reached with entries of the page left, and the walk broke out
C6_Witness ==
    /\ g_event = "cap_break"
    /\ scanned = per_country_limit
    /\ rv_i <= reviews

(***************************************************************************)
(* C7: an entry whose timestamp cannot be parsed adds no record, leaves    *)
(* the quota, the stop flag and the seen identifiers as they were, and the *)
(* entry loop goes on to the next entry of the same page.                  *)
(***************************************************************************)
C7_UnparseableEntryIsSkipped ==
    [][ g_event' = "unparseable" =>
          /\ all_rows' = all_rows
          /\ scanned' = scanned
          /\ stop_due_to_old' = stop_due_to_old
          /\ seen_review_ids' = seen_review_ids
          /\ pc' = "entry" /\ rv_i' = rv_i + 1 /\ page' = page ]_vars

\* an unparseable entry was skipped and the next entry of the page is up
C7_Witness ==
    /\ g_event = "unparseable"
    /\ pc = "entry"
    /\ rv_i <= reviews
    /\ scanned < per_country_limit
    /\ ~stop_due_to_old

(***************************************************************************)
(* C8: a run whose URL has no "/id" followed by digits ends in the input   *)
(* error and issues no request.                                            *)
(***************************************************************************)
C8_NoIdFailsBeforeAnyRequest ==
    app_url.id = "" =>
        /\ pc \in {"start", "error"}
        /\ g_fetch = NoFetch
        /\ g_probed = << >>
        /\ df = None

\* the run of a URL without identifier has ended in the error
C8_Witness == pc = "error" /\ app_url.id = "" /\ g_fetch = NoFetch

(***************************************************************************)
(* C9: rows are only ever appended; a failed probe, a failed page fetch, a *)
(* page that is not JSON or an empty page leaves the rows as they are and  *)
(* moves to the next region; the table returned holds every row, and every *)
(* region of the list was probed.                                          *)
(***************************************************************************)
C9_FailuresAreLocal ==
    [][ /\ IsPrefix(all_rows, all_rows')
        /\ g_event' \in FailureEvents =>
             /\ all_rows' = all_rows
             /\ pc' = "region"
             /\ idx' = idx + 1
        /\ pc' = "done" =>
             /\ Len(df'[1].rows) = Len(all_rows')
             /\ \A i \in 1..Len(all_rows') :
                  df'[1].rows[i].review_id = all_rows'[i].review_id
             /\ Range(g_probed') = {default_country'} \cup Range(STORE_FRONTS) ]_vars

\* a region failed after a row had been collected, and a region is left to probe
C9_Witness ==
    /\ g_event \in FailureEvents
    /\ Len(all_rows) >= 1
    /\ pc = "region"
    /\ idx <= Len(countries)

(***************************************************************************)
(* C10: the regions are probed default region first, then the other codes  *)
(* in the order of the enumeration, none twice; a feed request is always   *)
(* for the region probed last; a finished run probed every region.         *)
(***************************************************************************)
C10_RegionOrder ==
    /\ Len(g_probed) >= 1 => g_probed[1] = default_country
    /\ \A i, j \in 1..Len(g_probed) : i # j => g_probed[i] # g_probed[j]
    /\ \A i, j \in 2..Len(g_probed) :
         i < j => PositionIn(STORE_FRONTS, g_probed[i]) < PositionIn(STORE_FRONTS, g_probed[j])
    /\ g_fetch.kind = "feed" => g_fetch.country = g_probed[Len(g_probed)]
    /\ pc = "done" => Range(g_probed) = {default_country} \cup Range(STORE_FRONTS)

\* a finished run whose default region "us" was probed first and not again
C10_Witness ==
    /\ pc = "done"
    /\ g_probed = <<"us", "ru">>
    /\ Len(all_rows) = 2

(***************************************************************************)
(* C11: every run that passes the input check returns a table whose        *)
(* columns are, in this order, app id, app name, region, review id,        *)
(* author, rating, title, body, review timestamp, version, language tag,   *)
(* combined topic label, one flag per topic in taxonomy order, source      *)
(* reference; this holds with no row as with many, and every row carries   *)
(* its label and a flag of 0 or 1 per topic.                               *)
(***************************************************************************)
C11_Columns ==
    <<"app_id", "app_name", "country", "review_id", "author_name", "rating", "title",
      "review_text", "review_date", "version", "language", "topic_tags">>
    \o [i \in 1..Len(TOPIC_ORDER) |-> "topic_" \o TOPIC_ORDER[i]]
    \o <<"source_url">>

C11_SameColumnsAfterEveryRun ==
    /\ pc = "error" => app_id = None
    /\ pc = "done" =>
         /\ df # None
         /\ df[1].columns = C11_Columns
         /\ Len(df[1].rows) = Len(all_rows)
         /\ \A i \in 1..Len(df[1].rows) :
              /\ {"topic_tags", "topic_onboarding", "topic_streak", "topic_ads",
                  "topic_subscription", "topic_bugs", "topic_motivation"}
                     \subseteq DOMAIN df[1].rows[i]
              /\ df[1].rows[i].topic_ads \in {0, 1}

\* a run that probed every region, collected nothing and returned the table
C11_Witness ==
    /\ pc = "done"
    /\ all_rows = << >>
    /\ df[1].rows = << >>
    /\ Len(df[1].columns) = 19
    /\ Len(g_probed) = Len(countries)

(***************************************************************************)
(* C14: the name lookup returns None only after the fallback region "us"   *)
(* was queried as well: a preferred region that yields no non-empty name   *)
(* never ends the lookup.                                                  *)
(***************************************************************************)
C14_NoneOnlyAfterFallback ==
    (pc \in {"region", "probe", "page", "entry", "done"}
        /\ default_country # "us" /\ app_name = None)
    => name_i = 2

(***************************************************************************)
(* C19: with a progress callback supplied, the callback is made once per   *)
(* region of the list, regions skipped after a failed probe included, and  *)
(* before any request for that region; the fractions passed increase       *)
(* strictly and the last one is 1.                                         *)
(***************************************************************************)
C19_ProgressOncePerRegion ==
    [][ progress_callback' =>
          /\ g_probed' # g_probed =>
               /\ g_progress' = g_progress
               /\ Len(g_progress) = Len(g_probed')
               /\ g_progress[Len(g_progress)].country = g_fetch'.country
          /\ g_feed_gets' > g_feed_gets =>
               /\ g_progress' = g_progress
               /\ g_progress[Len(g_progress)].country = g_fetch'.country
          /\ \A i, j \in 1..Len(g_progress') :
               i < j => /\ g_progress'[i].country # g_progress'[j].country
                        /\ g_progress'[i].num * g_progress'[j].den
                              < g_progress'[j].num * g_progress'[i].den
          /\ pc' = "done" =>
               /\ [i \in 1..Len(g_progress') |-> g_progress'[i].country] = countries'
               /\ g_progress'[Len(g_progress')].num = g_progress'[Len(g_progress')].den ]_vars

\* a finished run of three regions whose last region was reported and then
\* skipped because its probe failed
C19_Witness ==
    /\ pc = "done"
    /\ progress_callback
    /\ Len(g_progress) = 3
    /\ g_probe = "fetch_failure"
    /\ g_progress[3] = [num |-> 3, den |-> 3, country |-> "us"]

(***************************************************************************)
(* C20: a feed page is requested, and a record added, only for the region  *)
(* probed last and only when that probe returned a listing; a probe that   *)
(* fails to fetch, is not parseable or has a result count of zero is       *)
(* followed by the next region, and no region is probed twice.             *)
(***************************************************************************)
C20_FeedOnlyAfterSuccessfulProbe ==
    [][ /\ g_feed_gets' > g_feed_gets =>
             /\ g_probe = "listing"
             /\ g_fetch'.kind = "feed"
             /\ g_fetch'.country = g_probed[Len(g_probed)]
        /\ all_rows' # all_rows =>
             /\ g_probe = "listing"
             /\ all_rows'[Len(all_rows')].country = g_probed[Len(g_probed)]
        /\ (g_probed' # g_probed /\ g_probe' # "listing") =>
             /\ pc' = "region"
             /\ idx' = idx + 1
        /\ \A i, j \in 1..Len(g_probed') : i # j => g_probed'[i] # g_probed'[j] ]_vars

\* a finished run whose last region had a result count of zero, after a
\* region that gave a record: the skipped region has no record
C20_Witness ==
    /\ pc = "done"
    /\ g_probe = "zero_results"
    /\ Len(all_rows) >= 1
    /\ g_feed_gets = 0
    /\ \A i \in 1..Len(all_rows) : all_rows[i].country # g_probed[Len(g_probed)]

(***************************************************************************)
(* C12: whatever each attempt produces, the fetcher issues at most         *)
(* max_retries requests; when it returns a response, that response is the  *)
(* one of the first attempt that got status 200 and it is the last request *)
(* issued; when max_retries attempts all ended in a retryable status or an *)
(* exception, the call ends and what it returns is None.                   *)
(***************************************************************************)
IsOk(o) == o.kind = "status" /\ o.code = 200

IsRetryable(o) ==
    o.kind = "exception" \/ (o.kind = "status" /\ o.code \in {429, 500, 502, 503, 504})

C12_AtMostMaxAttemptsFirst200Returned ==
    /\ Len(g_gets) <= 6
    /\ \A i \in 1..Len(g_gets) :
         IsOk(g_gets[i]) =>
             /\ i = Len(g_gets)
             /\ rq_pc = "returned"
             /\ rq_ret = Some(g_gets[i])
    /\ (rq_pc = "returned" /\ rq_ret # None) => IsOk(g_gets[Len(g_gets)])
    /\ (Len(g_gets) = 6 /\ \A i \in 1..6 : IsRetryable(g_gets[i])) =>
         /\ rq_ret = None
         /\ rq_pc \in {"sleep", "get", "returned"}
         /\ rq_pc = "get" => (ENABLED FetchExhausted /\ ~ENABLED FetchGet)

\* six attempts failed, an exception and a 503 among them, and the call
\* returned None
C12_Witness ==
    /\ rq_pc = "returned"
    /\ rq_ret = None
    /\ Len(g_gets) = 6
    /\ g_gets[1].kind = "exception"
    /\ g_gets[6].code = 503
    /\ \A i \in 1..6 : IsRetryable(g_gets[i])

(***************************************************************************)
(* C13: an attempt that receives a status other than 200 and other than    *)
(* 429, 500, 502, 503, 504 makes the fetcher return None at once: it       *)
(* enters no sleep and issues no further request, whatever attempts are    *)
(* left.                                                                   *)
(***************************************************************************)
C13_OtherStatusReturnsNoneAtOnce ==
    [][ /\ (Len(g_gets') > Len(g_gets)
              /\ status'.kind = "status"
              /\ status'.code \notin {200, 429, 500, 502, 503, 504}) =>
             /\ rq_pc' = "returned"
             /\ rq_ret' = None
             /\ sleep_s' = 0
        /\ rq_pc = "returned" => (g_gets' = g_gets /\ sleep_s' = sleep_s) ]_vars

\* the second attempt got a 404 after one retry, and the call returned with
\* four attempts left
C13_Witness ==
    /\ rq_pc = "returned"
    /\ rq_ret = None
    /\ Len(g_gets) = 2
    /\ g_gets[2] = [kind |-> "status", code |-> 404]
    /\ attempt = 1
    /\ sleep_s = 0

(***************************************************************************)
(* C15: the score is the number of Cyrillic letters over the number of     *)
(* letters of any script, and 0 when the text has fewer than 12 letters of *)
(* any script; the text is accepted exactly when that ratio reaches the    *)
(* threshold.                                                              *)
(***************************************************************************)
AnyScriptLetters == _LETTER_RE \cup OtherLetters

C15_RatioOverLettersOfAnyScript ==
    fn_pc = "returned" =>
        LET n == Len(SelectSeq(fn_arg.text, LAMBDA c : c \in AnyScriptLetters))
            k == Len(SelectSeq(fn_arg.text, LAMBDA c : c \in _CYR_RE))
        IN  /\ n < 12 => fn_ret.score[1] = 0
            /\ n >= 12 => fn_ret.score[1] * n = k * fn_ret.score[2]
            /\ fn_ret.accept <=> (n >= 12 /\ k * 100 >= fn_arg.threshold * n)

(***************************************************************************)
(* C16, as stated: two entries without identifier whose author, timestamp  *)
(* and text are equal after lowercasing, folding of io to ie and           *)
(* collapsing of whitespace get the same fingerprint, and the later one    *)
(* does not get past the duplicate test.                                   *)
(***************************************************************************)
Normal(t) == strip(CollapseSpaces(LowerFold(t)))

Instant(rv) == parse_iso_date(rv.review_date_raw)[1]

Standalone(k, in, delims) ==
    (LowerFold(in.w1) = k \/ LowerFold(in.w2) = k) /\ in.sep \in delims

NonWordSeps == {sp \in TopicSeps : sp # << >> /\ \A i \in 1..Len(sp) : sp[i] \notin WordChars}

Piece(name, flag, before) ==
    IF flag = 1 THEN (IF before THEN "," \o name ELSE name) ELSE ""

LabelOf(c) ==
    Piece("onboarding", c.topic_onboarding, FALSE)
    \o Piece("streak", c.topic_streak, c.topic_onboarding = 1)
    \o Piece("ads", c.topic_ads, 1 \in {c.topic_onboarding, c.topic_streak})
    \o Piece("subscription", c.topic_subscription,
             1 \in {c.topic_onboarding, c.topic_streak, c.topic_ads})
    \o Piece("bugs", c.topic_bugs,
             1 \in {c.topic_onboarding, c.topic_streak, c.topic_ads, c.topic_subscription})
    \o Piece("motivation", c.topic_motivation,
             1 \in {c.topic_onboarding, c.topic_streak, c.topic_ads,
                    c.topic_subscription, c.topic_bugs})

Found(topic, text) ==
    \E i \in 1..Len(TOPIC_PATTERNS[topic]) :
        search(TOPIC_PATTERNS[topic][i], _normalize_for_matching(text))

C18_LabelIsTheJoinOfTheFlaggedTopics ==
    fn_pc = "returned" =>
        LET text == fn_arg.w1 \o fn_arg.sep \o fn_arg.w2
        IN  /\ fn_ret.topic_tags = LabelOf(fn_ret)
            /\ fn_ret.topic_onboarding = (IF Found("onboarding", text) THEN 1 ELSE 0)
            /\ fn_ret.topic_streak = (IF Found("streak", text) THEN 1 ELSE 0)
            /\ fn_ret.topic_ads = (IF Found("ads", text) THEN 1 ELSE 0)
            /\ fn_ret.topic_subscription = (IF Found("subscription", text) THEN 1 ELSE 0)
            /\ fn_ret.topic_bugs = (IF Found("bugs", text) THEN 1 ELSE 0)
            /\ fn_ret.topic_motivation = (IF Found("motivation", text) THEN 1 ELSE 0)
            /\ (fn_arg.w1 = <<"a", "d", "s">> /\ fn_arg.sep = <<" ">>
                   /\ fn_arg.w2 = <<"o", "k">>) =>
                 fn_ret = [topic_tags |-> "ads", topic_onboarding |-> 0,
                           topic_streak |-> 0, topic_ads |-> 1,
                           topic_subscription |-> 0, topic_bugs |-> 0,
                           topic_motivation |-> 0]

\* "ads lag": two topics flagged, the label lists them in taxonomy order
C18_Witness ==
    /\ fn_pc = "returned"
    /\ fn_arg = [w1 |-> <<"l", "a", "g">>, sep |-> <<" ">>, w2 |-> <<"a", "d", "s">>]
    /\ fn_ret.topic_tags = "ads,bugs"
    /\ fn_ret.topic_ads = 1 /\ fn_ret.topic_bugs = 1

(***************************************************************************)
(* C21: a retryable failure (status 429, 500, 502, 503, 504 or an          *)
(* exception) on 0-based attempt k makes the fetcher sleep between         *)
(* base_sleep * 2^k and base_sleep * 2^k + jitter; the sleep over, the     *)
(* fetcher issues the next request, so that no call ends on a sleep: the   *)
(* last request of a call that returned did not fail retryably; and the    *)
(* requests of one call never exceed max_retries.                          *)
(***************************************************************************)
C21_EverySleepIsFollowedByARetry ==
    /\ Len(g_gets) <= max_retries
    /\ rq_pc = "sleep" =>
         /\ IsRetryable(status)
         /\ Len(g_gets) = attempt + 1
         /\ sleep_s >= base_sleep * (2 ^ attempt)
         /\ sleep_s <= base_sleep * (2 ^ attempt) + jitter
    /\ (rq_pc = "get" /\ attempt > 0) =>
         (IsRetryable(status) => ENABLED FetchGet)
    /\ (rq_pc = "returned" /\ Len(g_gets) > 0) =>
         ~IsRetryable(g_gets[Len(g_gets)])

(***************************************************************************)
(* C22: every region's feed walk stops, whatever the feed answers, pages   *)
(* of duplicates or of unparseable timestamps included: a walk that is     *)
(* about to request a page or is inside one is eventually left for the     *)
(* region loop, and the run eventually returns (or raised on its URL).     *)
(***************************************************************************)
C22_EveryWalkStopsAndTheRunReturns ==
    /\ (pc \in {"page", "entry"}) ~> (pc = "region")
    /\ <>(pc \in {"done", "error"})

====
